---------------------------- MODULE Spec2Model ----------------------------
(***************************************************************************)
(* Model of the CAT tool (src/app.py): the text helpers (segment_text,     *)
(* extract_tags, the re.split tokenization of the renderers,               *)
(* check_missing_tags, build_download_content) and the translation state   *)
(* kept in st.session_state (segments, translations, confirmed,            *)
(* active_seg) as it is changed by one script run per user event.          *)
(*                                                                         *)
(* A text is a sequence of one-character strings.  Dictionaries are        *)
(* functions whose DOMAIN is the set of keys; segment indices are 0-based  *)
(* as in the source, so segment i of the list is segments[i + 1].          *)
(***************************************************************************)
EXTENDS Integers, Sequences, FiniteSets, TLC

VARIABLES
    segments,       \* st.session_state.segments: list of source texts
    translations,   \* st.session_state.translations: dict index -> text
    confirmed,      \* st.session_state.confirmed: dict index -> bool
    active_seg,     \* st.session_state.active_seg
    lastOp,         \* the event handled by the last script run
    source,         \* text helpers: the source text given
    translation,    \* text helpers: the translation text given
    result          \* text helpers: the value the last call returned

vars == <<segments, translations, confirmed, active_seg, lastOp,
          source, translation, result>>

appVars == <<segments, translations, confirmed, active_seg, lastOp>>
textVars == <<source, translation, result>>

-----------------------------------------------------------------------------
(* Bounds                                                                  *)

\* most characters of translation text in the session after a toolbar
\* action has appended to it
MaxTextLen == 7
\* longest text given to the tokenizer, character by character
MaxLen == 4
\* most pieces (tags, plain runs) of a source / translation pair
MaxPieces == 3

-----------------------------------------------------------------------------
(* Python str / dict primitives                                            *)

Whitespace == {" ", "\n"}

RECURSIVE lstrip(_)
lstrip(s) ==
    IF s # <<>> /\ Head(s) \in Whitespace THEN lstrip(Tail(s)) ELSE s

RECURSIVE rstrip(_)
rstrip(s) ==
    IF s # <<>> /\ s[Len(s)] \in Whitespace
    THEN rstrip(SubSeq(s, 1, Len(s) - 1))
    ELSE s

\* str.strip()
strip(s) == rstrip(lstrip(s))

\* dict.get(k, default)
get(d, k, default) == IF k \in DOMAIN d THEN d[k] ELSE default

\* d[k] = v
put(d, k, v) == [x \in (DOMAIN d) \cup {k} |-> IF x = k THEN v ELSE d[x]]

\* d.setdefault(k, v)
setdefault(d, k, v) == IF k \in DOMAIN d THEN d ELSE put(d, k, v)

\* sep.join(parts)
RECURSIVE join(_, _)
join(sep, parts) ==
    IF parts = <<>> THEN <<>>
    ELSE IF Len(parts) = 1 THEN parts[1]
    ELSE parts[1] \o sep \o join(sep, Tail(parts))

-----------------------------------------------------------------------------
(* TAG_PATTERN = r"(<[^>]+>|\{[^}]+\}|\[[^\]]+\])"                         *)

Openers == {"<", "{", "["}

Closer(c) == CASE c = "<" -> ">"
               [] c = "{" -> "}"
               [] c = "[" -> "]"

\* least q >= p with s[q] = c, or 0
RECURSIVE IndexFrom(_, _, _)
IndexFrom(s, c, p) ==
    IF p > Len(s) THEN 0
    ELSE IF s[p] = c THEN p
    ELSE IndexFrom(s, c, p + 1)

\* The pattern tried at position p: the opener, one or more characters that
\* are not the closer, the closer.  The index of the match's last character,
\* or 0 when the pattern does not match at p.
TAG_PATTERN(s, p) ==
    IF p > Len(s) \/ s[p] \notin Openers THEN 0
    ELSE IF p + 1 > Len(s) \/ s[p + 1] = Closer(s[p]) THEN 0
    ELSE IndexFrom(s, Closer(s[p]), p + 2)

\* re.findall(TAG_PATTERN, text) from position p: leftmost, non-overlapping
RECURSIVE findall(_, _)
findall(s, p) ==
    IF p > Len(s) THEN <<>>
    ELSE LET e == TAG_PATTERN(s, p)
         IN  IF e = 0 THEN findall(s, p + 1)
             ELSE <<SubSeq(s, p, e)>> \o findall(s, e + 1)

extract_tags(text) == findall(text, 1)

\* mutant: the pattern split on has no capture group, the tags are dropped
RECURSIVE split_uncaptured(_, _, _)
split_uncaptured(s, from, p) ==
    IF p > Len(s) THEN <<SubSeq(s, from, Len(s))>>
    ELSE LET e == TAG_PATTERN(s, p)
         IN  IF e = 0 THEN split_uncaptured(s, from, p + 1)
             ELSE <<SubSeq(s, from, p - 1)>>
                  \o split_uncaptured(s, e + 1, e + 1)

\* re.split(TAG_PATTERN, text): the pattern is one capture group, so the
\* list alternates plain run, tag, plain run, ..., plain run; `from` is where
\* the current plain run starts and p the position scanned.
RECURSIVE split(_, _, _)
split(s, from, p) ==
    IF p > Len(s) THEN <<SubSeq(s, from, Len(s))>>
    ELSE LET e == TAG_PATTERN(s, p)
         IN  IF e = 0 THEN split(s, from, p + 1)
             ELSE <<SubSeq(s, from, p - 1), SubSeq(s, p, e)>>
                  \o split(s, e + 1, e + 1)

\* re.fullmatch(TAG_PATTERN, p): the whole of p is one of the three shapes
fullmatch(p) ==
    /\ Len(p) >= 3
    /\ p[1] \in Openers
    /\ p[Len(p)] = Closer(p[1])
    /\ \A k \in 2..(Len(p) - 1) : p[k] # Closer(p[1])

\* The loop of highlight_tags_html / render_translation_html over
\* re.split(TAG_PATTERN, text), each part classified by re.fullmatch.
tokenize(text) ==
    LET parts == split(text, 1, 1)
    IN  [k \in 1..Len(parts) |->
            [isTag |-> fullmatch(parts[k]), value |-> parts[k]]]

-----------------------------------------------------------------------------
(* render_translation_html                                                 *)

RENDER_TAGS ==
    { <<"b">>, <<"i">>, <<"u">>, <<"b", "r">>, <<"b", "r", "/">>,
      <<"s", "t", "r", "o", "n", "g">>, <<"e", "m">> }

\* str.strip(chars) and str.rstrip(chars)
RECURSIVE lstrip_chars(_, _)
lstrip_chars(s, chars) ==
    IF s # <<>> /\ Head(s) \in chars THEN lstrip_chars(Tail(s), chars) ELSE s

RECURSIVE rstrip_chars(_, _)
rstrip_chars(s, chars) ==
    IF s # <<>> /\ s[Len(s)] \in chars
    THEN rstrip_chars(SubSeq(s, 1, Len(s) - 1), chars)
    ELSE s

strip_chars(s, chars) == rstrip_chars(lstrip_chars(s, chars), chars)

\* index of the last character of the word that starts at p
RECURSIVE word_end(_, _)
word_end(s, p) ==
    IF p + 1 <= Len(s) /\ s[p + 1] \notin Whitespace THEN word_end(s, p + 1)
    ELSE p

\* str.split(): the words between the whitespace runs
RECURSIVE words(_)
words(s) ==
    LET t == lstrip(s)
    IN  IF t = <<>> THEN <<>>
        ELSE LET e == word_end(t, 1)
             IN  <<SubSeq(t, 1, e)>> \o words(SubSeq(t, e + 1, Len(t)))

\* str.lower(), on the letters the texts are made of
lower(s) == [k \in 1..Len(s) |-> IF s[k] = "B" THEN "b" ELSE s[k]]

\* html.escape(s)
escape_char(c) ==
    CASE c = "&" -> <<"&", "a", "m", "p", ";">>
      [] c = "<" -> <<"&", "l", "t", ";">>
      [] c = ">" -> <<"&", "g", "t", ";">>
      [] c = "\"" -> <<"&", "q", "u", "o", "t", ";">>
      [] c = "'" -> <<"&", "#", "x", "2", "7", ";">>
      [] OTHER -> <<c>>

escape(s) == join(<<>>, [k \in 1..Len(s) |-> escape_char(s[k])])

\* f'<span class="tag-chip">{html_lib.escape(p)}</span>'
chip(p) ==
    <<"<", "s", "p", "a", "n", " ", "c", "l", "a", "s", "s", "=", "\"",
      "t", "a", "g", "-", "c", "h", "i", "p", "\"", ">">>
    \o escape(p)
    \o <<"<", "/", "s", "p", "a", "n", ">">>

\* p.strip("<>/").split()[0].lower().rstrip("/"): the [0] raises IndexError
\* when split() returns no word
tag_name(p) ==
    LET ws == words(strip_chars(p, {"<", ">", "/"}))
    IN  IF ws = <<>> THEN [raises |-> "IndexError"]
        ELSE [raises |-> "none",
              value |-> rstrip_chars(lower(ws[1]), {"/"})]

\* one part of the split text rendered
render_part(tok) ==
    IF tok.isTag
    THEN IF tag_name(tok.value).value \in RENDER_TAGS
         THEN tok.value
         ELSE chip(tok.value)
    ELSE escape(tok.value)

\* The exception of the first tag whose name cannot be derived leaves the
\* function; otherwise the rendered parts are joined.
render_translation_html(text) ==
    LET toks == tokenize(text)
    IN  IF \E k \in 1..Len(toks) :
              toks[k].isTag /\ tag_name(toks[k].value).raises # "none"
        THEN [raises |-> "IndexError"]
        ELSE [raises |-> "none",
              value |-> join(<<>>, [k \in 1..Len(toks) |-> render_part(toks[k])])]

-----------------------------------------------------------------------------
(* check_missing_tags                                                      *)

\* t in tgt
contains(tgt, t) == \E k \in 1..Len(tgt) : tgt[k] = t

\* mutant: a matched translation tag is not consumed
remove_nothing(tgt, t) == tgt

\* tgt.remove(t): the first occurrence is removed
remove(tgt, t) ==
    LET k == CHOOSE j \in 1..Len(tgt) :
                 tgt[j] = t /\ \A h \in 1..(j - 1) : tgt[h] # t
    IN  SubSeq(tgt, 1, k - 1) \o SubSeq(tgt, k + 1, Len(tgt))

\* for t in src: consume t from tgt, or report it
RECURSIVE missing_loop(_, _)
missing_loop(src, tgt) ==
    IF src = <<>> THEN <<>>
    ELSE IF contains(tgt, Head(src))
         THEN missing_loop(Tail(src), remove(tgt, Head(src)))
         ELSE <<Head(src)>> \o missing_loop(Tail(src), tgt)

check_missing_tags(src_text, tr_text) ==
    missing_loop(extract_tags(src_text), extract_tags(tr_text))

-----------------------------------------------------------------------------
(* segment_text                                                            *)

\* index of the last character of the whitespace run that starts at p
\* (p - 1 when s[p] is no whitespace)
RECURSIVE space_run_end(_, _)
space_run_end(s, p) ==
    IF p <= Len(s) /\ s[p] \in Whitespace THEN space_run_end(s, p + 1)
    ELSE p - 1

\* r"\n\s*\n" tried at p: a newline, then the longest whitespace run that
\* still ends in a newline.  Index of the match's last character, or 0.
paragraph_break(s, p) ==
    IF p > Len(s) \/ s[p] # "\n" THEN 0
    ELSE LET r == space_run_end(s, p + 1)
             nl == {q \in (p + 1)..r : s[q] = "\n"}
         IN  IF nl = {} THEN 0
             ELSE CHOOSE q \in nl : \A h \in nl : h <= q

\* mutant: the sentence pattern has lost its lookbehind and splits at every
\* whitespace run
sentence_break_anywhere(s, p) ==
    IF p <= Len(s) /\ s[p] \in Whitespace
    THEN space_run_end(s, p)
    ELSE 0

\* r"(?<=[.!?])\s+" tried at p
sentence_break(s, p) ==
    IF p > 1 /\ p <= Len(s) /\ s[p - 1] \in {".", "!", "?"}
             /\ s[p] \in Whitespace
    THEN space_run_end(s, p)
    ELSE 0

\* re.split(r"\n\s*\n", s)
RECURSIVE split_paragraphs(_, _, _)
split_paragraphs(s, from, p) ==
    IF p > Len(s) THEN <<SubSeq(s, from, Len(s))>>
    ELSE LET e == paragraph_break(s, p)
         IN  IF e = 0 THEN split_paragraphs(s, from, p + 1)
             ELSE <<SubSeq(s, from, p - 1)>>
                  \o split_paragraphs(s, e + 1, e + 1)

\* re.split(r"(?<=[.!?])\s+", s)
RECURSIVE split_sentences(_, _, _)
split_sentences(s, from, p) ==
    IF p > Len(s) THEN <<SubSeq(s, from, Len(s))>>
    ELSE LET e == sentence_break(s, p)
         IN  IF e = 0 THEN split_sentences(s, from, p + 1)
             ELSE <<SubSeq(s, from, p - 1)>>
                  \o split_sentences(s, e + 1, e + 1)

\* the inner loop: strip every candidate, keep the non-empty ones
RECURSIVE keep_sentences(_)
keep_sentences(cands) ==
    IF cands = <<>> THEN <<>>
    ELSE LET s == strip(Head(cands))
         IN  (IF s # <<>> THEN <<s>> ELSE <<>>) \o keep_sentences(Tail(cands))

\* the outer loop over the paragraphs
RECURSIVE segment_paragraphs(_)
segment_paragraphs(paras) ==
    IF paras = <<>> THEN <<>>
    ELSE keep_sentences(split_sentences(strip(Head(paras)), 1, 1))
         \o segment_paragraphs(Tail(paras))

segment_text(text) ==
    segment_paragraphs(split_paragraphs(strip(text), 1, 1))

-----------------------------------------------------------------------------
(* build_download_content                                                  *)

\* mutant: the segments are joined by a single line break
build_download_content_one_break(segs, trans) ==
    join(<<"\n">>,
         [k \in 1..Len(segs) |-> get(trans, k - 1, <<>>)])

build_download_content(segs, trans) ==
    join(<<"\n", "\n">>,
         [k \in 1..Len(segs) |-> get(trans, k - 1, <<>>)])

-----------------------------------------------------------------------------
(* Inputs                                                                  *)

\* texts the user may load: empty, whitespace only, and texts of one, two
\* and three segments with tags in them
RawTexts ==
    { <<>>,
      <<" ", "\n">>,
      <<"{", "1", "}">>,
      <<"a", ".", " ", "<", "b", ">">>,
      <<" ", "a", ".", "\n", "\n", "b", "!", " ", "[", "x", "]">> }

\* texts the user may type into a segment's text area
TypedTexts == { <<>>, <<" ">>, <<"x">> }

\* the payloads of the insert_tag buttons of TOOLBAR_BUTTONS
TOOLBAR_BUTTONS ==
    { <<<<"<", "b", ">">>, <<"<", "/", "b", ">">> >>,
      <<<<"<", "i", ">">>, <<"<", "/", "i", ">">> >>,
      <<<<"<", "u", ">">>, <<"<", "/", "u", ">">> >>,
      <<<<"<", "b", "r", "/", ">">>, <<>> >> }

-----------------------------------------------------------------------------
(* The script run.  A session state is the record st of the four session   *)
(* keys; every operator below is one part of main() applied to it.         *)

State == [segments |-> segments, translations |-> translations,
          confirmed |-> confirmed, active_seg |-> active_seg]

EmptyDict == [i \in {} |-> <<>>]

\* for i in range(n): d.setdefault(i, v)
RECURSIVE setdefaults(_, _, _, _)
setdefaults(d, i, n, v) ==
    IF i >= n THEN d ELSE setdefaults(setdefault(d, i, v), i + 1, n, v)

\* mutant: a load starts every segment of the new document empty
load_and_segment_fresh(st, raw_text) ==
    IF strip(raw_text) # <<>>
    THEN LET segs == segment_text(raw_text)
         IN  [segments |-> segs,
              active_seg |-> 0,
              translations |-> [i \in 0..(Len(segs) - 1) |-> <<>>],
              confirmed |-> [i \in 0..(Len(segs) - 1) |-> FALSE]]
    ELSE st

\* mutant: a load leaves the active pointer where it was
load_and_segment_keep_active(st, raw_text) ==
    IF strip(raw_text) # <<>>
    THEN LET segs == segment_text(raw_text)
         IN  [segments |-> segs,
              active_seg |-> st.active_seg,
              translations |-> setdefaults(st.translations, 0, Len(segs), <<>>),
              confirmed |-> setdefaults(st.confirmed, 0, Len(segs), FALSE)]
    ELSE st

\* mutant: a load does not test the text for blankness
load_and_segment_unchecked(st, raw_text) ==
    LET segs == segment_text(raw_text)
    IN  [segments |-> segs,
         active_seg |-> 0,
         translations |-> setdefaults(st.translations, 0, Len(segs), <<>>),
         confirmed |-> setdefaults(st.confirmed, 0, Len(segs), FALSE)]

\* the "Cargar y segmentar" button
load_and_segment(st, raw_text) ==
    IF strip(raw_text) # <<>>
    THEN LET segs == segment_text(raw_text)
         IN  [segments |-> segs,
              active_seg |-> 0,
              translations |-> setdefaults(st.translations, 0, Len(segs), <<>>),
              confirmed |-> setdefaults(st.confirmed, 0, Len(segs), FALSE)]
    ELSE st

\* what the load button reports: st.success or st.warning
load_message(raw_text) ==
    IF strip(raw_text) # <<>> THEN "success" ELSE "warning"

\* The text areas of segments i .. n-1.  st.text_area returns what the user
\* typed in the run an edit of that widget triggers, and its value argument,
\* translations.get(i, ""), in every other run; the returned text is stored.
RECURSIVE text_areas(_, _, _, _, _)
text_areas(trans, i, n, edited, typed) ==
    IF i >= n THEN trans
    ELSE text_areas(
            put(trans, i, IF i = edited THEN typed ELSE get(trans, i, <<>>)),
            i + 1, n, edited, typed)

NoEdit == -1

\* the segment grid with no widget event
grid(st) ==
    [st EXCEPT !.translations =
        text_areas(@, 0, Len(st.segments), NoEdit, <<>>)]

\* st.rerun(): the script runs again from the top with no widget event; it
\* returns at "if not segments", or renders the toolbar and the grid.
rerun(st) == IF st.segments = <<>> THEN st ELSE grid(st)

\* mutant: clear-all empties the texts and leaves the confirmed flags
clear_all_texts_only(st) ==
    LET n == Len(st.segments)
    IN  rerun([st EXCEPT !.translations = [i \in 0..(n - 1) |-> <<>>]])

\* the "Borrar todas las traducciones" button
clear_all(st) ==
    LET n == Len(st.segments)
    IN  rerun([st EXCEPT !.translations = [i \in 0..(n - 1) |-> <<>>],
                         !.confirmed = [i \in 0..(n - 1) |-> FALSE]])

\* mutant: the button appends the opening token only
insert_tag_open_only(st, payload) ==
    LET active == st.active_seg
        cur == get(st.translations, active, <<>>)
    IN  rerun([st EXCEPT !.translations = put(@, active, cur \o payload[1])])

\* toolbar action "insert_tag"
insert_tag(st, payload) ==
    LET active == st.active_seg
        cur == get(st.translations, active, <<>>)
    IN  rerun([st EXCEPT !.translations =
                   put(@, active, cur \o payload[1] \o payload[2])])

\* toolbar action "copy_source"
copy_source(st) ==
    LET active == st.active_seg
        src_tags == extract_tags(st.segments[active + 1])
        cur == get(st.translations, active, <<>>)
    IN  rerun([st EXCEPT !.translations =
                   put(@, active, cur \o join(<<>>, src_tags))])

\* mutant: the toggle does not test the translation for blankness
confirm_active_unchecked(st) ==
    rerun([st EXCEPT !.confirmed =
               put(@, st.active_seg, ~get(@, st.active_seg, FALSE))])

\* mutant: the button confirms, and never unconfirms
confirm_active_set(st) ==
    IF strip(get(st.translations, st.active_seg, <<>>)) # <<>>
    THEN rerun([st EXCEPT !.confirmed = put(@, st.active_seg, TRUE)])
    ELSE grid(st)

\* toolbar action "confirm_active"; without st.rerun() the run goes on to
\* the grid
confirm_active(st) ==
    LET active == st.active_seg
        val == get(st.translations, active, <<>>)
    IN  IF strip(val) # <<>>
        THEN rerun([st EXCEPT !.confirmed =
                        put(@, active, ~get(@, active, FALSE))])
        ELSE grid(st)

\* mutant: confirm-all confirms the blank segments too
RECURSIVE confirm_loop_every(_, _, _, _)
confirm_loop_every(conf, trans, i, n) ==
    IF i >= n THEN conf
    ELSE confirm_loop_every(put(conf, i, TRUE), trans, i + 1, n)

\* for i in range(i, n): if translations.get(i, "").strip(): confirmed[i] = True
RECURSIVE confirm_loop(_, _, _, _)
confirm_loop(conf, trans, i, n) ==
    IF i >= n THEN conf
    ELSE confirm_loop(
            IF strip(get(trans, i, <<>>)) # <<>> THEN put(conf, i, TRUE) ELSE conf,
            trans, i + 1, n)

\* toolbar action "confirm_all"
confirm_all(st) ==
    rerun([st EXCEPT !.confirmed =
               confirm_loop(@, st.translations, 0, Len(st.segments))])

\* the "Seleccionar #i+1" button: the grid rows before row i have run
select_segment(st, i) ==
    rerun([st EXCEPT !.translations = text_areas(@, 0, i, NoEdit, <<>>),
                     !.active_seg = i])

\* an edit of text area i: the on_change callback, then the script run
edit_segment(st, i, typed) ==
    LET st1 == [st EXCEPT !.active_seg = i]
    IN  [st1 EXCEPT !.translations =
            text_areas(@, 0, Len(st1.segments), i, typed)]

\* the stats bar: n_confirmed and filled, and the four counts shown
n_confirmed(st) ==
    Cardinality({i \in 0..(Len(st.segments) - 1) : get(st.confirmed, i, FALSE)})

filled(st) ==
    Cardinality({i \in 0..(Len(st.segments) - 1) :
                    strip(get(st.translations, i, <<>>)) # <<>>})

stats(st) ==
    [segmentCount |-> Len(st.segments),
     confirmedCount |-> n_confirmed(st),
     inProgressCount |-> filled(st) - n_confirmed(st),
     pendingCount |-> Len(st.segments) - filled(st)]

-----------------------------------------------------------------------------
(* The state machine: one action per user event                            *)

NoCall == [fn |-> "none"]

Init ==
    /\ segments = <<>>
    /\ translations = EmptyDict
    /\ confirmed = EmptyDict
    /\ active_seg = 0
    /\ lastOp = [op |-> "start"]
    /\ source = <<>>
    /\ translation = <<>>
    /\ result = NoCall

Becomes(st) ==
    /\ segments' = st.segments
    /\ translations' = st.translations
    /\ confirmed' = st.confirmed
    /\ active_seg' = st.active_seg

\* the load button runs its handler and the rest of the script in one run
Load ==
    \E raw_text \in RawTexts :
        /\ Becomes(rerun(load_and_segment(State, raw_text)))
        /\ lastOp' = [op |-> "load", raw_text |-> raw_text,
                      message |-> load_message(raw_text)]
        /\ UNCHANGED textVars

ClearAll ==
    /\ Becomes(clear_all(State))
    /\ lastOp' = [op |-> "clear_all"]
    /\ UNCHANGED textVars

\* the toolbar and the grid exist only when the last run got past
\* "if not segments: return"
Rendered == segments # <<>>

\* characters held in the translations dict
RECURSIVE TotalLen(_)
TotalLen(d) ==
    IF DOMAIN d = {} THEN 0
    ELSE LET k == CHOOSE x \in DOMAIN d : TRUE
         IN  Len(d[k]) + TotalLen([x \in (DOMAIN d) \ {k} |-> d[x]])

InsertTag ==
    \E payload \in TOOLBAR_BUTTONS :
        /\ Rendered
        /\ TotalLen(translations)
              + Len(payload[1]) + Len(payload[2]) <= MaxTextLen
        /\ Becomes(insert_tag(State, payload))
        /\ lastOp' = [op |-> "insert_tag", payload |-> payload]
        /\ UNCHANGED textVars

CopySource ==
    /\ Rendered
    /\ TotalLen(translations)
          + Len(join(<<>>, extract_tags(segments[active_seg + 1]))) <= MaxTextLen
    /\ Becomes(copy_source(State))
    /\ lastOp' = [op |-> "copy_source"]
    /\ UNCHANGED textVars

ConfirmActive ==
    /\ Rendered
    /\ Becomes(confirm_active(State))
    /\ lastOp' = [op |-> "confirm_active"]
    /\ UNCHANGED textVars

ConfirmAll ==
    /\ Rendered
    /\ Becomes(confirm_all(State))
    /\ lastOp' = [op |-> "confirm_all"]
    /\ UNCHANGED textVars

\* the select button of row i is rendered when i is not the active segment
Select ==
    \E i \in 0..(Len(segments) - 1) :
        /\ i # active_seg
        /\ Becomes(select_segment(State, i))
        /\ lastOp' = [op |-> "select"]
        /\ UNCHANGED textVars

\* text area i is rendered disabled when segment i is confirmed, and a
\* widget reports a change only when its text differs
Edit ==
    \E i \in 0..(Len(segments) - 1), typed \in TypedTexts :
        /\ ~get(confirmed, i, FALSE)
        /\ typed # get(translations, i, <<>>)
        /\ Becomes(edit_segment(State, i, typed))
        /\ lastOp' = [op |-> "edit"]
        /\ UNCHANGED textVars

Next ==
    \/ Load
    \/ ClearAll
    \/ InsertTag
    \/ CopySource
    \/ ConfirmActive
    \/ ConfirmAll
    \/ Select
    \/ Edit

Spec == Init /\ [][Next]_vars

-----------------------------------------------------------------------------
(* The text helpers called on given texts                                  *)

\* every text of at most MaxLen characters over the bracket alphabet
Alphabet == {"<", ">", "{", "}", "[", "]", "a"}
CharTexts == UNION {[1..n -> Alphabet] : n \in 0..MaxLen}

\* texts assembled from at most MaxPieces tags and plain runs
Pieces == { <<"<", "b", ">">>, <<"{", "1", "}">>, <<"a">> }
PieceTexts ==
    {join(<<>>, ps) : ps \in UNION {[1..n -> Pieces] : n \in 0..MaxPieces}}

\* every text of at most MaxLen characters of markup: angle brackets, slash,
\* blank, and a whitelisted tag name in both cases
MarkupAlphabet == {"<", ">", "/", " ", "b", "B"}
MarkupTexts == UNION {[1..n -> MarkupAlphabet] : n \in 0..MaxLen}

\* every text of at most MaxLen characters of prose: a letter, a full stop,
\* a blank and a line break
ProseAlphabet == {"a", ".", " ", "\n"}
ProseTexts == UNION {[1..n -> ProseAlphabet] : n \in 0..MaxLen}

InitText ==
    /\ segments = <<>>
    /\ translations = EmptyDict
    /\ confirmed = EmptyDict
    /\ active_seg = 0
    /\ lastOp = [op |-> "start"]
    /\ result = NoCall
    /\ \/ source \in CharTexts \cup MarkupTexts \cup ProseTexts
          /\ translation = <<>>
       \/ source \in PieceTexts /\ translation \in PieceTexts

CallExtractTags ==
    /\ result' = [fn |-> "extract_tags", value |-> extract_tags(source)]
    /\ UNCHANGED <<source, translation>>
    /\ UNCHANGED appVars

CallTokenize ==
    /\ result' = [fn |-> "tokenize", value |-> tokenize(source)]
    /\ UNCHANGED <<source, translation>>
    /\ UNCHANGED appVars

CallCheckMissingTags ==
    /\ result' = [fn |-> "check_missing_tags",
                  value |-> check_missing_tags(source, translation)]
    /\ UNCHANGED <<source, translation>>
    /\ UNCHANGED appVars

CallRenderTranslationHtml ==
    /\ result' = [fn |-> "render_translation_html",
                  value |-> render_translation_html(source)]
    /\ UNCHANGED <<source, translation>>
    /\ UNCHANGED appVars

CallSegmentText ==
    /\ result' = [fn |-> "segment_text", value |-> segment_text(source)]
    /\ UNCHANGED <<source, translation>>
    /\ UNCHANGED appVars

NextText ==
    \/ CallExtractTags
    \/ CallTokenize
    \/ CallCheckMissingTags
    \/ CallRenderTranslationHtml
    \/ CallSegmentText

SpecText == InitText /\ [][NextText]_vars

-----------------------------------------------------------------------------
(* Properties of the session state                                         *)

N == Len(segments)
Indices == 0..(N - 1)
translatedText(i) == get(translations, i, <<>>)
isConfirmed(i) == get(confirmed, i, FALSE)
Blank(text) == strip(text) = <<>>
SessionUnchanged ==
    UNCHANGED <<segments, translations, confirmed, active_seg>>

\* C1: in every reachable state every segment 0..N-1 whose confirmed flag is
\* true has a translatedText that is non-empty after trimming.
C1_ConfirmedHasText ==
    \A i \in Indices : isConfirmed(i) => ~Blank(translatedText(i))

\* a confirmed segment next to a whitespace-only, unconfirmed one, right
\* after confirm-all
C1_Witness ==
    /\ lastOp.op = "confirm_all"
    /\ \E i \in Indices : isConfirmed(i)
    /\ \E i \in Indices : translatedText(i) = <<" ">> /\ ~isConfirmed(i)

\* C2: while segment i is confirmed no edit operation (a typed edit, an
\* insert-tag or a copy-source-tags on the active segment i) changes
\* translatedText[i].
C2_ConfirmedTextNotEdited ==
    [][\A i \in Indices :
          (isConfirmed(i)
             /\ lastOp'.op \in {"edit", "insert_tag", "copy_source"})
          => get(translations', i, <<>>) = translatedText(i)]_vars

\* C3: right after a load that replaces oldCount segments by newCount, every
\* index oldCount <= i < newCount has translatedText "" and confirmed false.
C3_NewIndicesStartEmpty ==
    [][(lastOp'.op = "load" /\ lastOp'.message = "success")
          => \A i \in N..(Len(segments') - 1) :
                /\ get(translations', i, <<>>) = <<>>
                /\ ~get(confirmed', i, FALSE)]_vars

\* C4: a load of non-blank text that yields at least as many segments as the
\* current document leaves translatedText[i] and confirmed[i] of every prior
\* index i in 0..oldCount-1 unchanged.
C4_LoadKeepsPriorIndices ==
    [][(lastOp'.op = "load" /\ ~Blank(lastOp'.raw_text)
          /\ Len(segments') >= N)
          => \A i \in Indices :
                /\ i \in DOMAIN translations' /\ i \in DOMAIN confirmed'
                /\ translations'[i] = translations[i]
                /\ confirmed'[i] = confirmed[i]]_vars

\* a three-segment document just loaded over a document whose segment 0 was
\* translated and confirmed
C4_Witness ==
    /\ lastOp.op = "load"
    /\ lastOp.message = "success"
    /\ N = 3
    /\ isConfirmed(0)
    /\ translatedText(0) = <<"x">>

\* C5: toggle-confirm on the active segment a changes nothing when
\* translatedText[a] is blank; otherwise it negates confirmed[a] and changes
\* nothing else, so that a second toggle restores the state before the first.
C5_ToggleConfirm ==
    [][lastOp'.op = "confirm_active"
          => /\ IF Blank(translatedText(active_seg))
                THEN SessionUnchanged
                ELSE /\ confirmed' =
                           [confirmed EXCEPT ![active_seg] = ~confirmed[active_seg]]
                     /\ UNCHANGED <<segments, translations, active_seg>>
             /\ confirm_active(State') = State]_vars

\* the toggle has just unconfirmed a translated segment while another
\* segment stays confirmed
C5_Witness ==
    /\ lastOp.op = "confirm_active"
    /\ ~Blank(translatedText(active_seg))
    /\ ~isConfirmed(active_seg)
    /\ \E i \in Indices : isConfirmed(i)

\* C6: after confirm-all every segment with non-blank text is confirmed, no
\* confirmed segment became unconfirmed, no blank segment became confirmed,
\* no translatedText changed, and a second confirm-all changes nothing.
C6_ConfirmAll ==
    [][lastOp'.op = "confirm_all"
          => /\ \A i \in Indices :
                   ~Blank(translatedText(i)) => get(confirmed', i, FALSE)
             /\ \A i \in DOMAIN confirmed :
                   confirmed[i] => get(confirmed', i, FALSE)
             /\ \A i \in Indices :
                   (Blank(translatedText(i)) /\ ~isConfirmed(i))
                      => ~get(confirmed', i, FALSE)
             /\ UNCHANGED <<segments, translations, active_seg>>
             /\ confirm_all(State') = State']_vars

\* confirm-all has run on a document with a translated segment and an
\* empty one
C6_Witness ==
    /\ lastOp.op = "confirm_all"
    /\ N = 3
    /\ isConfirmed(1)
    /\ translatedText(2) = <<>> /\ ~isConfirmed(2)
    /\ translatedText(0) = <<" ">> /\ ~isConfirmed(0)

\* C7: a load of blank text (empty or whitespace only) changes no state and
\* ends in a warning.
C7_BlankLoad ==
    [][(lastOp'.op = "load" /\ Blank(lastOp'.raw_text))
          => SessionUnchanged /\ lastOp'.message = "warning"]_vars

\* a whitespace-only load on a document with a confirmed segment and the
\* last segment active
C7_Witness ==
    /\ lastOp.op = "load"
    /\ lastOp.raw_text = <<" ", "\n">>
    /\ N = 3
    /\ active_seg = 2
    /\ \E i \in Indices : isConfirmed(i)

\* C8: with N >= 1 segments the export is translatedText[0], ...,
\* translatedText[N-1] in index order with exactly one "\n\n" between
\* consecutive entries, empty and unconfirmed segments included, and no text
\* of an index >= N.
RECURSIVE C8_Offset(_)
C8_Offset(i) ==
    IF i = 0 THEN 0 ELSE C8_Offset(i - 1) + Len(translatedText(i - 1)) + 2

C8_ExportIsJoin ==
    N >= 1 =>
        LET export == build_download_content(segments, translations)
        IN  /\ Len(export) = C8_Offset(N) - 2
            /\ \A i \in Indices :
                  SubSeq(export, C8_Offset(i) + 1,
                         C8_Offset(i) + Len(translatedText(i)))
                     = translatedText(i)
            /\ \A i \in 1..(N - 1) :
                  /\ export[C8_Offset(i) - 1] = "\n"
                  /\ export[C8_Offset(i)] = "\n"

\* two segments, the first untranslated, and a translation left at index 2
\* by an earlier, longer document
C8_Witness ==
    /\ N = 2
    /\ translatedText(0) = <<>>
    /\ translatedText(1) # <<>>
    /\ 2 \in DOMAIN translations
    /\ translations[2] # <<>>

-----------------------------------------------------------------------------
(* Properties of the text helpers                                          *)

Range(seq) == {seq[k] : k \in 1..Len(seq)}
Count(seq, t) == Cardinality({k \in 1..Len(seq) : seq[k] = t})
SameBag(a, b) == \A t \in Range(a) \cup Range(b) : Count(a, t) = Count(b, t)

\* a is b with some elements left out
RECURSIVE IsSubseq(_, _)
IsSubseq(a, b) ==
    IF a = <<>> THEN TRUE
    ELSE IF b = <<>> THEN FALSE
    ELSE IF Head(a) = Head(b) THEN IsSubseq(Tail(a), Tail(b))
    ELSE IsSubseq(a, Tail(b))

\* C9: missingTags(source, translation) is the multiset deficit in source
\* order: it holds each tag t exactly max(0, count in source - count in
\* translation) times, holds only source tags, keeps the source order, does
\* not change when the translation's tags are reordered, and is empty when
\* the translation's tags contain the source's.
C9_MissingIsDeficit ==
    result.fn = "check_missing_tags" =>
        LET S == extract_tags(source)
            T == extract_tags(translation)
            M == result.value
        IN  /\ \A t \in Range(S) \cup Range(T) \cup Range(M) :
                  Count(M, t) = IF Count(S, t) > Count(T, t)
                                THEN Count(S, t) - Count(T, t)
                                ELSE 0
            /\ Range(M) \subseteq Range(S)
            /\ IsSubseq(M, S)
            /\ \A other \in PieceTexts :
                  (Len(other) = Len(translation)
                      /\ SameBag(extract_tags(other), T))
                     => check_missing_tags(source, other) = M
            /\ (\A t \in Range(S) : Count(S, t) <= Count(T, t)) => M = <<>>

\* a source with a tag twice and a translation that has it once, after
\* another tag
C9_Witness ==
    /\ result.fn = "check_missing_tags"
    /\ extract_tags(source)
          = << <<"{", "1", "}">>, <<"{", "1", "}">>, <<"<", "b", ">">> >>
    /\ extract_tags(translation) = << <<"<", "b", ">">>, <<"{", "1", "}">> >>
    /\ result.value = << <<"{", "1", "}">> >>

\* C10: the tokenization of the renderers is a faithful partition: the token
\* values concatenated give the text back, the tokens classified as tags are
\* in order exactly extractTags(text), and a bracket with no matching closer
\* lies in a plain run and is never a tag.
C10_TokenizePartition ==
    result.fn = "tokenize" =>
        LET toks == result.value
            tags == SelectSeq(toks, LAMBDA x : x.isTag)
        IN  /\ join(<<>>, [k \in 1..Len(toks) |-> toks[k].value]) = source
            /\ [k \in 1..Len(tags) |-> tags[k].value] = extract_tags(source)
            /\ \A k \in 1..Len(toks) :
                  toks[k].isTag =>
                     LET v == toks[k].value
                     IN  /\ Len(v) >= 3
                         /\ v[1] \in Openers
                         /\ v[Len(v)] = Closer(v[1])
            /\ \A k \in 1..Len(toks) :
                  ~toks[k].isTag => extract_tags(toks[k].value) = <<>>
            /\ (\A j \in 1..Len(source) : source[j] \notin {">", "}", "]"})
                  => \A k \in 1..Len(toks) : ~toks[k].isTag

\* a tag followed by an opener that is never closed
C10_Witness ==
    /\ result.fn = "tokenize"
    /\ Len(result.value) = 3
    /\ result.value[2].isTag
    /\ ~result.value[3].isTag
    /\ Len(result.value[3].value) = 1
    /\ result.value[3].value[1] \in Openers

\* C11: renderFormatted is total: for every text, whatever the interior of
\* its tag tokens, the tag-name derivation completes and a string is
\* returned.
C11_RenderIsTotal ==
    result.fn = "render_translation_html" => result.value.raises = "none"

\* the segments occur in the text one after the other, from position p on
RECURSIVE OccurInOrder(_, _, _)
OccurInOrder(segs, text, p) ==
    IF segs = <<>> THEN TRUE
    ELSE LET n == Len(Head(segs))
         IN  \E q \in p..(Len(text) - n + 1) :
                /\ SubSeq(text, q, q + n - 1) = Head(segs)
                /\ OccurInOrder(Tail(segs), text, q + n)

\* two line breaks with nothing but whitespace between them
HasParagraphBreak(t) ==
    \E p \in 1..Len(t), q \in 1..Len(t) :
        /\ p < q
        /\ t[p] = "\n" /\ t[q] = "\n"
        /\ \A k \in (p + 1)..(q - 1) : t[k] \in Whitespace

\* a '.', '!' or '?' followed by whitespace
HasSentenceEnd(t) ==
    \E p \in 1..(Len(t) - 1) :
        t[p] \in {".", "!", "?"} /\ t[p + 1] \in Whitespace

\* C12: for every non-blank text segment(text) returns at least one segment,
\* every segment is non-empty without leading or trailing whitespace, the
\* segments occur in the text in order, and a trimmed text with neither a
\* paragraph break nor a sentence end followed by whitespace gives exactly
\* one segment, the trimmed text.
C12_SegmentText ==
    (result.fn = "segment_text" /\ ~Blank(source)) =>
        LET segs == result.value
            t == strip(source)
        IN  /\ Len(segs) >= 1
            /\ \A k \in 1..Len(segs) :
                  /\ segs[k] # <<>>
                  /\ segs[k][1] \notin Whitespace
                  /\ segs[k][Len(segs[k])] \notin Whitespace
            /\ OccurInOrder(segs, source, 1)
            /\ (~HasParagraphBreak(t) /\ ~HasSentenceEnd(t)) => segs = <<t>>

\* a text with a leading blank and a single line break inside comes back as
\* one segment
C12_Witness ==
    /\ result.fn = "segment_text"
    /\ source # <<>>
    /\ source[1] = " "
    /\ Len(result.value) = 1
    /\ \E k \in 1..Len(result.value[1]) : result.value[1][k] = "\n"

-----------------------------------------------------------------------------
(* Further properties of the session state                                 *)

\* C13: with a document loaded the stats satisfy confirmedCount +
\* inProgressCount + pendingCount = segmentCount, inProgressCount is filled
\* minus confirmed, and none of the three counts is negative.
C13_StatsPartition ==
    Rendered =>
        LET s == stats(State)
        IN  /\ s.confirmedCount + s.inProgressCount + s.pendingCount
                  = s.segmentCount
            /\ s.segmentCount = N
            /\ s.inProgressCount
                  = Cardinality({i \in Indices : ~Blank(translatedText(i))})
                    - Cardinality({i \in Indices : isConfirmed(i)})
            /\ s.confirmedCount >= 0
            /\ s.inProgressCount >= 0
            /\ s.pendingCount >= 0

\* one segment confirmed, one in progress and one pending, right after a
\* reload
C13_Witness ==
    /\ lastOp.op = "load"
    /\ lastOp.message = "success"
    /\ stats(State) = [segmentCount |-> 3, confirmedCount |-> 1,
                       inProgressCount |-> 1, pendingCount |-> 1]

\* C14: insert-tag with a loaded document sets translatedText[active] to its
\* previous value followed by openToken + closeToken and changes nothing
\* else; with no document loaded there is no insert-tag step at all, so no
\* state changes and nothing is raised.
C14_InsertAtActive ==
    [][lastOp'.op = "insert_tag"
          => /\ segments # <<>>
             /\ active_seg \in DOMAIN translations
             /\ translations' =
                   [translations EXCEPT ![active_seg] =
                       translations[active_seg]
                          \o lastOp'.payload[1] \o lastOp'.payload[2]]
             /\ UNCHANGED <<segments, confirmed, active_seg>>]_vars

\* the line-break tag appended to the text "x" of the second segment, next
\* to a whitespace-only first segment
C14_Witness ==
    /\ lastOp.op = "insert_tag"
    /\ active_seg = 1
    /\ translatedText(1) = <<"x", "<", "b", "r", "/", ">">>
    /\ translatedText(0) = <<" ">>

\* C15: with a document of N >= 1 segments loaded the active pointer is a
\* valid index, 0 <= active < N, and a load that replaces the document
\* leaves the pointer at 0.
C15_ActiveIsValid ==
    /\ Rendered => active_seg \in Indices
    /\ (lastOp.op = "load" /\ lastOp.message = "success") => active_seg = 0

\* a one-segment document loaded over a longer one whose third segment had
\* been edited
C15_Witness ==
    /\ lastOp.op = "load"
    /\ lastOp.message = "success"
    /\ N = 1
    /\ 2 \in DOMAIN translations
    /\ translations[2] = <<"x">>

=============================================================================
